---- MODULE Spec2Model ----
(***************************************************************************)
(* Model of the backup engine of Pipsys/backup-app.                        *)
(*                                                                         *)
(*   - ParallelSSHBackupWorker (src/main.py): the remote executor, one     *)
(*     main thread (start_backup) and max_workers upload threads sharing   *)
(*     one queue, one lock, one stats dict, one stop flag, one session.    *)
(*   - BackupManager (src/backup_logic.py): the local executor.            *)
(*   - the two incremental skip decisions, as pure functions.              *)
(*   - _mkdirs run by the upload threads at once over one remote tree.     *)
(*   - the start/stop button of the application (PoogaloBackup) and the    *)
(*     BackupScheduler thread.                                             *)
(*                                                                         *)
(* The remote host, the local file system's faults and the callbacks are   *)
(* the environment: their answers are drawn with \E where the code asks.   *)
(* Resource exhaustion inside the interpreter (MemoryError, a thread that  *)
(* cannot be started) is not part of RemoteSpec.                           *)
(***************************************************************************)
EXTENDS Integers, Sequences, FiniteSets, TLC

\* ------------------------------------------------------------- bounds
MaxItems == 2        \* most entries the sources of a remote run hold
MaxWorkers == 2      \* largest max_workers tried
MaxFiles == 2        \* files the sources of a local run hold
MaxClock == 2        \* distinct seconds datetime.now() can show
MaxRuns == 2         \* invocations of BackupManager.start_backup
MaxEntries == 2      \* entries of the source tree given to a collector
MaxDepth == 2        \* directories on the longest remote path
MaxParts == 2        \* components of the longest source directory path
MaxPresses == 6      \* presses of the start/stop button
MaxOccurrences == 8  \* days on which the scheduled minute comes

\* ------------------------------------------------------------- state
VARIABLES
  \* ---- ParallelSSHBackupWorker
  incremental,      \* self.incremental
  use_hash_check,   \* self.use_hash_check
  max_workers,      \* self.max_workers
  nsources,         \* number of entries the sources hold (walk order)
  stop_flag,        \* self._stop_flag
  lock,             \* self._lock: 0 free, w held by worker w, MainId by start_backup
  queue,            \* self._queue: the items not yet dequeued (FIFO)
  unfinished,       \* self._queue.unfinished_tasks
  stats,            \* self._stats
  items,            \* the list _collect_files builds, as item ids
  rpc,              \* position of start_backup
  ci,               \* source index of the collection loop
  spawned,          \* number of worker threads started
  jw,               \* index of the worker start_backup joins next
  sftp,             \* the SFTP session: "none", "open", "closed"
  client,           \* the SSH client: "none", "created", "connected", "closed"
  routcome,         \* how start_backup ended
  wpc,              \* position of each _upload_worker
  witem,            \* the item a worker holds (0: none)
  wctr,             \* the counter a worker is about to increment
  wtmp,             \* the value a worker read from that counter
  wput,             \* sftp.put calls a worker made for the item it holds
  \* ---- history of the remote run (read by the properties only)
  deq,              \* item -> times dequeued
  counted,          \* item -> counter increments made for it
  done,             \* item -> task_done calls made for it
  upload_failures,  \* uploads that failed
  observed,         \* worker -> it has read the stop flag set
  \* ---- BackupManager
  bm_incremental,   \* self.incremental
  bm_compress,      \* self.compress
  bm_preserve,      \* self.preserve_structure
  bm_stop_flag,     \* self._stop_flag
  bm_stats,         \* self.stats
  backup_path,      \* self.backup_path: the second backup_<timestamp> names
  all_files,        \* the list _collect_files builds, as file ids
  lpc,              \* position of BackupManager.start_backup
  li,               \* index of the loop in progress
  src_mtime,        \* file -> modification time of the source file
  dest,             \* the target directory: (timestamp, path) -> entry
  zip_entries,      \* the entries of backup.zip of the run in progress
  last_backup,      \* content of <target>/last_backup.json
  src_present,      \* file -> the source exists and its size can be read
  progress,         \* processedCount of each progress_callback call of the run
  backup_log,       \* backup_log.txt of the run in progress
  out_files,        \* timestamp -> the files directly inside backup_<timestamp>
  \* ---- history of the local runs (read by the properties only)
  runs,             \* start_backup invocations so far
  mgr_runs,         \* of them, on the current BackupManager object
  prev_clean,       \* the previous run copied its whole manifest undisturbed
  run_ok,           \* no fault and no stop() in the run so far
  run_copied,       \* files the run in progress has copied
  \* ---- the skip decisions as pure functions
  p_fn,             \* the function applied: "remote" or "local"
  p_args,           \* its arguments and the environment's answers
  p_res,            \* what it returned ("applied" once it has)
  \* ---- _mkdirs and the put after it, per upload thread
  rdirs,            \* the directories of the remote path that exist
  mdepth,           \* worker -> directories on the path of its remote_dir
  mpc,              \* worker -> position in _upload_file
  mcur,             \* worker -> the directory `cur` names
  mres,             \* worker -> how its _upload_file ended
  mraced,           \* worker -> a mkdir of it found the directory made meanwhile
  mdenied,          \* some mkdir was refused for another reason
  \* ---- PoogaloBackup: the start/stop button
  backup_in_progress, \* self.backup_in_progress
  backup_threads,   \* the backup threads started so far, the last being
                    \* self.backup_thread: "running", "stopping", "finished"
  presses,          \* presses of the button so far
  \* ---- BackupScheduler
  sch_pc,           \* position of the thread running _daily_schedule
  sch_stop,         \* self._stop_flag of the scheduler
  sch_occ,          \* occurrences of the scheduled minute so far
  sch_at,           \* datetime.now() is within the scheduled minute
  sch_fired         \* occurrence -> backups triggered in it

rvars == <<incremental, use_hash_check, max_workers, nsources, stop_flag, lock,
           queue, unfinished, stats, items, rpc, ci, spawned, jw, sftp, client,
           routcome, wpc, witem, wctr, wtmp, wput, deq, counted, done,
           upload_failures, observed>>

lvars == <<bm_incremental, bm_compress, bm_preserve, bm_stop_flag, bm_stats,
           backup_path, all_files, lpc, li, src_mtime, dest, zip_entries,
           last_backup, src_present, progress, backup_log, out_files, runs,
           mgr_runs, prev_clean, run_ok, run_copied>>

mkvars == <<rdirs, mdepth, mpc, mcur, mres, mraced, mdenied>>

gvars == <<backup_in_progress, backup_threads, presses, sch_pc, sch_stop,
           sch_occ, sch_at, sch_fired>>

pvars == <<p_fn, p_args, p_res, mkvars, gvars>>

vars == <<rvars, lvars, pvars>>

ItemIds == 1..MaxItems
Workers == 1..MaxWorkers
MainId == MaxWorkers + 1

\* ------------------------------------------------ the remote skip decision
Sizes == {1, 2}
RemoteMtimes == 0..2          \* st_mtime of the remote entry, whole seconds
LocalMtimes == {2, 3}         \* os.path.getmtime in half seconds: 1.0 s, 1.5 s
Digests == {"d1", "d2"}

\* int(x) of a non-negative float kept in half seconds
PyInt(halfsec) == halfsec \div 2

\* sftp.stat(remote_path): raises, or st_size and st_mtime
StatResults ==
  {[ok |-> FALSE, st_size |-> 0, st_mtime |-> 0]} \cup
  [ok : {TRUE}, st_size : Sizes, st_mtime : RemoteMtimes]

\* os.path.getsize / os.path.getmtime of the local file: raise, or values
LocalStats ==
  {[ok |-> FALSE, size |-> 0, mtime |-> 0]} \cup
  [ok : {TRUE}, size : Sizes, mtime : LocalMtimes]

\* sftp.open(path + ".hash", 'r').read().strip(): raises, or the bytes read
\* (an SFTP file's read() returns bytes whatever the mode)
SidecarReads ==
  {[ok |-> FALSE, type |-> "bytes", val |-> ""]} \cup
  [ok : {TRUE}, type : {"bytes"}, val : Digests]

\* _calculate_md5(local_path): raises, or hashlib's hexdigest(), a str
LocalHashes ==
  {[ok |-> FALSE, type |-> "str", val |-> ""]} \cup
  [ok : {TRUE}, type : {"str"}, val : Digests]

\* Python's == between two values: a str never equals a bytes
PyEq(a, b) == a.type = b.type /\ a.val = b.val

\* lines 418-428: the size/mtime tier; any exception leaves it inconclusive
MetadataFresh_mut(st, loc) ==
  \/ ~st.ok
  \/ ~loc.ok
  \/ (st.st_size = loc.size /\ st.st_mtime >= PyInt(loc.mtime))

MetadataFresh(st, loc) ==
  /\ st.ok
  /\ loc.ok
  /\ st.st_size = loc.size
  /\ st.st_mtime >= PyInt(loc.mtime)

\* lines 431-439: the sidecar tier; any exception falls through to False
HashTier(side, md5) ==
  /\ side.ok
  /\ md5.ok
  /\ PyEq(md5, side)

\* _should_skip_incremental: the value returned and the remote calls made
ShouldSkipIncremental(inc, hash, st, loc, side, md5) ==
  IF ~inc
    THEN [ret |-> FALSE, statCalled |-> FALSE, sidecarRead |-> FALSE]
  ELSE IF MetadataFresh(st, loc)
    THEN [ret |-> TRUE, statCalled |-> TRUE, sidecarRead |-> FALSE]
  ELSE IF hash
    THEN [ret |-> HashTier(side, md5), statCalled |-> TRUE, sidecarRead |-> TRUE]
  ELSE [ret |-> FALSE, statCalled |-> TRUE, sidecarRead |-> FALSE]

\* the values the check can return for a file, over every answer of the
\* remote host and of the local file system
SkipOutcomes(inc, hash) ==
  {ShouldSkipIncremental(inc, hash, st, loc, side, md5).ret :
     st \in StatResults, loc \in LocalStats, side \in SidecarReads,
     md5 \in LocalHashes}

\* ------------------------------------------------ helpers of the remote run
ZeroStats == [total_files |-> 0, files_copied |-> 0, skipped |-> 0, failed |-> 0]

\* `while not self._stop_flag`
LoopCondition_mut(flag) == TRUE

LoopCondition(flag) == ~flag

\* `with self._lock`: the lock can be taken when nobody holds it
LockFree_mut(l) == TRUE

LockFree(l) == l = 0

\* lines 482-487: the counter a finished upload goes to
UploadCounter_mut(ok) == "files_copied"

UploadCounter(ok) == IF ok THEN "files_copied" ELSE "failed"

\* _upload_file: put, then the sidecar when use_hash_check (a sidecar that
\* cannot be written is ignored, a local file that cannot be hashed is not)
UploadResult(hash, putOk, md5Ok) == putOk /\ (hash => md5Ok)

\* Queue.join(): returns when every put item has been marked done
JoinReturns_mut(u) == TRUE

JoinReturns(u) == u = 0

\* ------------------------------------------------ the local skip decision
Mtimes == {1, 2}              \* modification times of local files

\* os.path.getmtime(path): raises OSError, or the time
MtimeReads ==
  {[ok |-> FALSE, val |-> 0]} \cup [ok : {TRUE}, val : Mtimes]

\* line 296: `target_mtime >= source_mtime`
NotOlder_mut(t, s) == t > s

NotOlder(t, s) == t >= s

\* _should_skip_file: False when the target is missing (line 290), False when
\* either getmtime raises OSError (lines 297-298)
ShouldSkipFile(texists, smt, tmt) ==
  IF ~texists THEN FALSE
  ELSE IF ~smt.ok THEN FALSE
  ELSE IF ~tmt.ok THEN FALSE
  ELSE NotOlder(tmt.val, smt.val)

\* ------------------------------------------------ helpers of the local run
LFiles == 1..MaxFiles
Stamps == 1..MaxClock

\* The sources, in enumeration order: source_dirs holds one directory per
\* file but the last, each with one file; source_files holds the last file.
\* The first two files have the same name, the others another one.
SourceType(f) == IF f < MaxFiles THEN "directory" ELSE "file"
SourceRoot(f) == IF f < MaxFiles THEN f ELSE 0
Basename(f) == IF f <= 2 THEN "a" ELSE "b"

Targets == [root : 0..(MaxFiles - 1), base : {"a", "b"}]

\* lines 208-215 (and 267-273): where a file goes under backup_path
TargetPath(preserve, f) ==
  IF preserve /\ SourceType(f) = "directory"
    THEN [root |-> SourceRoot(f), base |-> Basename(f)]
    ELSE [root |-> 0, base |-> Basename(f)]

Absent == [mtime |-> 0, src |-> 0]

\* lines 41-48: the stats a BackupManager is constructed with
ZeroLocalStats ==
  [total_files |-> 0, files_copied |-> 0, files_skipped |-> 0, total_size |-> 0,
   end_time |-> FALSE]

\* the exception handlers of the item loops (lines 237-243, 282-284)
OnItemError_mut(st) == st

OnItemError(st) == [st EXCEPT !.files_skipped = @ + 1]

\* backup_log.txt before its header is written
NoLog ==
  [header |-> FALSE, lines |-> <<>>,
   footer |-> [written |-> FALSE, copied |-> 0, skipped |-> 0]]

\* the files start_backup's executors create directly inside backup_path
Artifacts == {"backup_metadata.json", "backup_log.txt", "backup.zip"}

\* BackupManager.__init__
LocalConstructed ==
  /\ progress = <<>>
  /\ backup_log = NoLog
  /\ bm_stop_flag = FALSE
  /\ bm_stats = ZeroLocalStats
  /\ backup_path = 0
  /\ all_files = <<>>
  /\ lpc = "idle"
  /\ li = 1
  /\ zip_entries = <<>>
  /\ runs = 0
  /\ mgr_runs = 0
  /\ prev_clean = FALSE
  /\ run_ok = FALSE
  /\ run_copied = 0

\* a target directory nothing was written to yet
LocalWorld ==
  /\ dest = [k \in Stamps \X Targets |-> Absent]
  /\ out_files = [t \in Stamps |-> {}]
  /\ last_backup = [written |-> FALSE, backup_path |-> 0, stats |-> ZeroLocalStats]

NoArgs ==
  [inc |-> FALSE, hash |-> FALSE,
   st |-> [ok |-> FALSE, st_size |-> 0, st_mtime |-> 0],
   loc |-> [ok |-> FALSE, size |-> 0, mtime |-> 0],
   side |-> [ok |-> FALSE, type |-> "bytes", val |-> ""],
   md5 |-> [ok |-> FALSE, type |-> "str", val |-> ""],
   texists |-> FALSE,
   smt |-> [ok |-> FALSE, val |-> 0],
   tmt |-> [ok |-> FALSE, val |-> 0]]

NoResult == [applied |-> FALSE, ret |-> FALSE, statCalled |-> FALSE, sidecarRead |-> FALSE]

\* the parts of the state a specification does not exercise
LocalIdle ==
  /\ bm_incremental = FALSE
  /\ bm_compress = FALSE
  /\ bm_preserve = FALSE
  /\ src_mtime = [f \in LFiles |-> 1]
  /\ src_present = [f \in LFiles |-> FALSE]
  /\ LocalConstructed
  /\ LocalWorld

\* no thread is in _upload_file
MkdirsNotStarted ==
  /\ mpc = [w \in Workers |-> "idle"]
  /\ mcur = [w \in Workers |-> 0]
  /\ mres = [w \in Workers |-> "none"]
  /\ mraced = [w \in Workers |-> FALSE]
  /\ mdenied = FALSE

MkdirIdle ==
  /\ rdirs = {}
  /\ mdepth = [w \in Workers |-> 0]
  /\ MkdirsNotStarted

\* PoogaloBackup before the first press of the button
GuiIdle ==
  /\ backup_in_progress = FALSE
  /\ backup_threads = <<>>
  /\ presses = 0

\* BackupScheduler.__init__, lines 399-402
SchedIdle ==
  /\ sch_pc = "none"
  /\ sch_stop = FALSE
  /\ sch_occ = 0
  /\ sch_at = FALSE
  /\ sch_fired = [o \in 1..MaxOccurrences |-> 0]

PureIdle ==
  /\ p_fn = "none"
  /\ p_args = NoArgs
  /\ p_res = NoResult
  /\ MkdirIdle
  /\ GuiIdle
  /\ SchedIdle

\* ------------------------------------------------------------- Init
\* ParallelSSHBackupWorker.__init__, lines 286-297
RemoteConstructed ==
  /\ stop_flag = FALSE
  /\ lock = 0
  /\ queue = <<>>
  /\ unfinished = 0
  /\ stats = ZeroStats
  /\ items = <<>>
  /\ rpc = "idle"
  /\ ci = 1
  /\ spawned = 0
  /\ jw = 1
  /\ sftp = "none"
  /\ client = "none"
  /\ routcome = "none"
  /\ wpc = [w \in Workers |-> "unstarted"]
  /\ witem = [w \in Workers |-> 0]
  /\ wctr = [w \in Workers |-> "none"]
  /\ wtmp = [w \in Workers |-> 0]
  /\ wput = [w \in Workers |-> 0]
  /\ deq = [i \in ItemIds |-> 0]
  /\ counted = [i \in ItemIds |-> 0]
  /\ done = [i \in ItemIds |-> 0]
  /\ upload_failures = 0
  /\ observed = [w \in Workers |-> FALSE]

RemoteIdle ==
  /\ incremental = FALSE
  /\ use_hash_check = FALSE
  /\ max_workers = 1
  /\ nsources = 0
  /\ RemoteConstructed

RemoteInit ==
  /\ incremental \in BOOLEAN
  /\ use_hash_check \in BOOLEAN
  /\ max_workers \in 1..MaxWorkers
  /\ nsources \in 0..MaxItems
  /\ RemoteConstructed
  /\ LocalIdle
  /\ PureIdle

wvars == <<wpc, witem, wctr, wtmp, wput>>
hvars == <<deq, counted, done, upload_failures, observed>>
cfgvars == <<incremental, use_hash_check, max_workers, nsources, lvars, pvars>>
mainvars == <<rpc, ci, spawned, jw, sftp, client, routcome, items>>

\* ------------------------------------------------------------- stop()
Stop ==
  /\ ~stop_flag
  /\ stop_flag' = TRUE
  /\ UNCHANGED <<cfgvars, lock, queue, unfinished, stats, mainvars, wvars, hvars>>

\* ------------------------------------------------------------- start_backup
\* lines 498-502: paramiko cannot be imported: log and return
ImportFails ==
  /\ rpc = "idle"
  /\ rpc' = "returned"
  /\ routcome' = "noimport"
  /\ UNCHANGED <<cfgvars, stop_flag, lock, queue, unfinished, stats, ci, spawned,
                 jw, sftp, client, items, wvars, hvars>>

StartBackup ==
  /\ rpc = "idle"
  /\ rpc' = "collect"
  /\ UNCHANGED <<cfgvars, stop_flag, lock, queue, unfinished, stats, ci, spawned,
                 jw, sftp, client, routcome, items, wvars, hvars>>

\* _collect_files, one source per step. The worker is constructed with
\* source_dirs followed by source_files, nsources in all; where the
\* directories end is settled when the first loop is left (CollectDirsEnd),
\* which covers every split. rpc is "collect" in the loop over source_dirs,
\* "collect_stopped" in that loop once a poll has found the flag set, and
\* "collect_files" in the loop over source_files.

\* lines 323-352 (a directory holding one file) or 355-362 (a loose file):
\* the polls find the flag clear and the item is appended
CollectOne ==
  /\ rpc \in {"collect", "collect_files"}
  /\ ci <= nsources
  /\ ~stop_flag
  /\ items' = Append(items, ci)
  /\ ci' = ci + 1
  /\ UNCHANGED <<cfgvars, stop_flag, lock, queue, unfinished, stats, rpc, spawned,
                 jw, sftp, client, routcome, wvars, hvars>>

\* lines 325-327 with the flag set: os.walk(src_dir) lists the directory
\* before it yields, the poll then leaves the walk of this directory only
\* (`break`), and the loop over source_dirs goes on with the next one
CollectSkip ==
  /\ rpc \in {"collect", "collect_stopped"}
  /\ ci <= nsources
  /\ stop_flag
  /\ ci' = ci + 1
  /\ rpc' = "collect_stopped"
  /\ UNCHANGED <<cfgvars, stop_flag, lock, queue, unfinished, stats, spawned,
                 jw, sftp, client, routcome, items, wvars, hvars>>

\* line 355: the loop over source_dirs is over, the one over source_files
\* begins with the sources that are left
CollectDirsEnd ==
  /\ rpc \in {"collect", "collect_stopped"}
  /\ rpc' = "collect_files"
  /\ UNCHANGED <<cfgvars, stop_flag, lock, queue, unfinished, stats, ci, spawned,
                 jw, sftp, client, routcome, items, wvars, hvars>>

\* line 505: `if not files`
NoItems_mut(its) == FALSE
NoItems(its) == Len(its) = 0

\* lines 373-377 and 505-507: total_files is set under the lock; an empty
\* list ends the run before any session is opened
CollectEnd ==
  /\ rpc = "collect_files"
  /\ (ci > nsources \/ stop_flag)
  /\ LockFree(lock)
  /\ stats' = [stats EXCEPT !.total_files = Len(items)]
  /\ IF NoItems(items)
       THEN rpc' = "returned" /\ routcome' = "empty"
       ELSE rpc' = "connect" /\ routcome' = routcome
  /\ UNCHANGED <<cfgvars, stop_flag, lock, queue, unfinished, ci, spawned, jw,
                 sftp, client, items, wvars, hvars>>

\* lines 514-536: client.connect and client.open_sftp, either may raise
Connect ==
  /\ rpc = "connect"
  /\ \E connectOk \in BOOLEAN, sftpOk \in BOOLEAN :
       IF connectOk /\ sftpOk
         THEN sftp' = "open" /\ client' = "connected" /\ rpc' = "fill"
              /\ routcome' = routcome
       ELSE sftp' = "none"
            /\ client' = (IF connectOk THEN "connected" ELSE "created")
            /\ rpc' = "cleanup" /\ routcome' = "error"
  /\ UNCHANGED <<cfgvars, stop_flag, lock, queue, unfinished, stats, ci, spawned,
                 jw, items, wvars, hvars>>

\* lines 545-546: every item is put, in list order
FillQueue ==
  /\ rpc = "fill"
  /\ queue' = queue \o items
  /\ unfinished' = unfinished + Len(items)
  /\ rpc' = "spawn"
  /\ UNCHANGED <<cfgvars, stop_flag, lock, stats, ci, spawned, jw, sftp, client,
                 routcome, items, wvars, hvars>>

\* lines 549-557: one thread per worker, started in turn
SpawnWorker ==
  /\ rpc = "spawn"
  /\ spawned < max_workers
  /\ spawned' = spawned + 1
  /\ wpc' = [wpc EXCEPT ![spawned + 1] = "loop"]
  /\ UNCHANGED <<cfgvars, stop_flag, lock, queue, unfinished, stats, rpc, ci, jw,
                 sftp, client, routcome, items, witem, wctr, wtmp, wput, hvars>>

\* line 560: self._queue.join()
QueueJoin ==
  /\ rpc = "spawn"
  /\ spawned = max_workers
  /\ JoinReturns(unfinished)
  /\ rpc' = "wjoin"
  /\ UNCHANGED <<cfgvars, stop_flag, lock, queue, unfinished, stats, ci, spawned,
                 jw, sftp, client, routcome, items, wvars, hvars>>

\* lines 563-564: worker.join(timeout=1.0) returns when the thread has ended
\* or when the second has passed; its result is not looked at
WorkerJoin ==
  /\ rpc = "wjoin"
  /\ jw <= max_workers
  /\ \/ wpc[jw] = "exited"
     \/ wpc[jw] # "exited"
  /\ jw' = jw + 1
  /\ UNCHANGED <<cfgvars, stop_flag, lock, queue, unfinished, stats, rpc, ci,
                 spawned, sftp, client, routcome, items, wvars, hvars>>

\* lines 566-569: get_stats() under the lock, then the final log line
Report ==
  /\ rpc = "wjoin"
  /\ jw > max_workers
  /\ LockFree(lock)
  /\ rpc' = "cleanup"
  /\ routcome' = "completed"
  /\ UNCHANGED <<cfgvars, stop_flag, lock, queue, unfinished, stats, ci, spawned,
                 jw, sftp, client, items, wvars, hvars>>

\* lines 573-583: finally: sftp.close() if sftp, client.close() if client
Cleanup ==
  /\ rpc = "cleanup"
  /\ sftp' = (IF sftp = "open" THEN "closed" ELSE sftp)
  /\ client' = "closed"
  /\ rpc' = "returned"
  /\ UNCHANGED <<cfgvars, stop_flag, lock, queue, unfinished, stats, ci, spawned,
                 jw, routcome, items, wvars, hvars>>

\* ------------------------------------------------------------- _upload_worker
\* line 468: the loop condition
WorkerLoop(w) ==
  /\ wpc[w] = "loop"
  /\ IF LoopCondition(stop_flag)
       THEN wpc' = [wpc EXCEPT ![w] = "get"]
       ELSE wpc' = [wpc EXCEPT ![w] = "exited"]
  /\ observed' = [observed EXCEPT ![w] = @ \/ stop_flag]
  /\ UNCHANGED <<cfgvars, stop_flag, lock, queue, unfinished, stats, mainvars,
                 witem, wctr, wtmp, wput, deq, counted, done, upload_failures>>

\* Queue.get_nowait(): the item a non-empty FIFO queue hands out
GetNowait_mut(q) == q[Len(q)]
GetNowait(q) == Head(q)

\* lines 470 and 491-492: get_nowait(); Empty ends the worker
WorkerGet(w) ==
  /\ wpc[w] = "get"
  /\ IF queue = <<>>
       THEN /\ wpc' = [wpc EXCEPT ![w] = "exited"]
            /\ UNCHANGED <<queue, witem, deq>>
       ELSE /\ witem' = [witem EXCEPT ![w] = GetNowait(queue)]
            /\ queue' = Tail(queue)
            /\ deq' = [deq EXCEPT ![GetNowait(queue)] = @ + 1]
            /\ wpc' = [wpc EXCEPT ![w] = "check"]
  /\ UNCHANGED <<cfgvars, stop_flag, lock, unfinished, stats, mainvars, wctr, wtmp,
                 wput, counted, done, upload_failures, observed>>

\* line 477: the incremental check; the remote's and the file system's
\* answers are the environment's
WorkerCheck(w) ==
  /\ wpc[w] = "check"
  /\ \E skip \in SkipOutcomes(incremental, use_hash_check) :
       IF skip
         THEN /\ wctr' = [wctr EXCEPT ![w] = "skipped"]
              /\ wpc' = [wpc EXCEPT ![w] = "acquire"]
         ELSE /\ wctr' = wctr
              /\ wpc' = [wpc EXCEPT ![w] = "upload"]
  /\ UNCHANGED <<cfgvars, stop_flag, lock, queue, unfinished, stats, mainvars,
                 witem, wtmp, wput, hvars>>

\* line 482: _upload_file; a put on a closed session fails
WorkerUpload(w) ==
  /\ wpc[w] = "upload"
  /\ \E putOk \in BOOLEAN, md5Ok \in BOOLEAN :
       LET ok == UploadResult(use_hash_check, putOk /\ sftp = "open", md5Ok) IN
         /\ wctr' = [wctr EXCEPT ![w] = UploadCounter(ok)]
         /\ upload_failures' = upload_failures + (IF ok THEN 0 ELSE 1)
  /\ wput' = [wput EXCEPT ![w] = @ + 1]
  /\ wpc' = [wpc EXCEPT ![w] = "acquire"]
  /\ UNCHANGED <<cfgvars, stop_flag, lock, queue, unfinished, stats, mainvars,
                 witem, wtmp, deq, counted, done, observed>>

\* `with self._lock:` entered, and the counter read (the read of `+= 1`)
WorkerAcquire(w) ==
  /\ wpc[w] = "acquire"
  /\ LockFree(lock)
  /\ lock' = w
  /\ wtmp' = [wtmp EXCEPT ![w] = stats[wctr[w]]]
  /\ wpc' = [wpc EXCEPT ![w] = "write"]
  /\ UNCHANGED <<cfgvars, stop_flag, queue, unfinished, stats, mainvars, witem,
                 wctr, wput, hvars>>

\* the write of `+= 1`, and the lock left; after a skip line 480 calls the
\* progress callback, which may raise: lines 493-495 then log and mark the
\* item done
WorkerWrite(w) ==
  /\ wpc[w] = "write"
  /\ stats' = [stats EXCEPT ![wctr[w]] = wtmp[w] + 1]
  /\ lock' = 0
  /\ counted' = [counted EXCEPT ![witem[w]] = @ + 1]
  /\ \E raises \in BOOLEAN :
       wpc' = [wpc EXCEPT ![w] =
                 IF wctr[w] = "skipped" /\ raises THEN "except" ELSE "done"]
  /\ UNCHANGED <<cfgvars, stop_flag, queue, unfinished, mainvars, witem, wctr,
                 wtmp, wput, deq, done, upload_failures, observed>>

\* line 489 (and line 495 after an exception): task_done()
WorkerTaskDone(w) ==
  /\ wpc[w] \in {"done", "except"}
  /\ unfinished' = unfinished - 1
  /\ done' = [done EXCEPT ![witem[w]] = @ + 1]
  /\ witem' = [witem EXCEPT ![w] = 0]
  /\ wctr' = [wctr EXCEPT ![w] = "none"]
  /\ wtmp' = [wtmp EXCEPT ![w] = 0]
  /\ wput' = [wput EXCEPT ![w] = 0]
  /\ wpc' = [wpc EXCEPT ![w] = "loop"]
  /\ UNCHANGED <<cfgvars, stop_flag, lock, queue, stats, mainvars, deq, counted,
                 upload_failures, observed>>

MainStep ==
  \/ ImportFails
  \/ StartBackup
  \/ CollectOne
  \/ CollectSkip
  \/ CollectDirsEnd
  \/ CollectEnd
  \/ Connect
  \/ FillQueue
  \/ SpawnWorker
  \/ QueueJoin
  \/ WorkerJoin
  \/ Report
  \/ Cleanup

WorkerStep(w) ==
  \/ WorkerLoop(w)
  \/ WorkerGet(w)
  \/ WorkerCheck(w)
  \/ WorkerUpload(w)
  \/ WorkerAcquire(w)
  \/ WorkerWrite(w)
  \/ WorkerTaskDone(w)

RemoteNext ==
  \/ Stop
  \/ MainStep
  \/ \E w \in Workers : WorkerStep(w)

RemoteSpec == RemoteInit /\ [][RemoteNext]_vars

\* lines 550-556 and 571-572: Thread.start() raises (RuntimeError: can't
\* start new thread); the threads started before it go on running, the
\* exception is logged and the finally block is next
SpawnFails ==
  /\ rpc = "spawn"
  /\ spawned < max_workers
  /\ rpc' = "cleanup"
  /\ routcome' = "error"
  /\ UNCHANGED <<cfgvars, stop_flag, lock, queue, unfinished, stats, ci, spawned,
                 jw, sftp, client, items, wvars, hvars>>

RemoteFaultNext ==
  \/ RemoteNext
  \/ SpawnFails

\* the remote run on a host where a thread may fail to start
RemoteFaultSpec == RemoteInit /\ [][RemoteFaultNext]_vars

\* the threads are scheduled fairly; nobody is obliged to call stop()
RemoteFairSpec ==
  /\ RemoteInit
  /\ [][RemoteNext]_vars
  /\ WF_vars(MainStep)
  /\ \A w \in Workers : WF_vars(WorkerStep(w))

\* =============================================================== BackupManager
lcfg == <<bm_incremental, bm_compress, bm_preserve, src_mtime, src_present>>
lhist == <<runs, mgr_runs, prev_clean>>
lout == <<progress, backup_log, out_files>>
others == <<rvars, pvars>>

\* BackupManager.stop, lines 312-314
LocalStop ==
  /\ ~bm_stop_flag
  /\ bm_stop_flag' = TRUE
  /\ run_ok' = FALSE
  /\ UNCHANGED <<lcfg, bm_stats, backup_path, all_files, lpc, li, dest,
                 zip_entries, last_backup, lhist, lout, run_copied, others>>

\* lines 57-68: start_backup leaves self._stop_flag as it finds it (the Event
\* is created at line 50 and BackupManager never calls clear())
FlagOnEntry_mut(flag) == FALSE
FlagOnEntry(flag) == flag

\* start_backup, lines 57-68: start_time, backup_<timestamp>, makedirs; an
\* exception is logged and raised again (lines 111-113). The clock shows the
\* second of the previous run or a later one. self.stats is not touched.
EnterStartBackup ==
  /\ runs' = runs + 1
  /\ mgr_runs' = mgr_runs + 1
  /\ prev_clean' = (run_ok /\ run_copied = Len(all_files) /\ Len(all_files) > 0)
  /\ run_copied' = 0
  /\ backup_path' \in {t \in Stamps : t >= backup_path}
  /\ all_files' = <<>>
  /\ li' = 1
  /\ \E makedirsOk \in BOOLEAN :
       /\ lpc' = IF makedirsOk THEN "collect" ELSE "raised"
       /\ run_ok' = (makedirsOk /\ ~bm_stop_flag)
  /\ progress' = <<>>
  /\ bm_stop_flag' = FlagOnEntry(bm_stop_flag)
  /\ UNCHANGED <<lcfg, bm_stats, dest, zip_entries, last_backup,
                 backup_log, out_files, others>>

\* the first start_backup of a BackupManager
LocalStart ==
  /\ lpc = "idle"
  /\ EnterStartBackup

RunEnded == lpc \in {"returned", "raised"}

\* start_backup called again on the same BackupManager, as
\* BackupScheduler._daily_schedule does (lines 410-416)
LocalRestart ==
  /\ RunEnded
  /\ runs < MaxRuns
  /\ EnterStartBackup

\* a new BackupManager over the same sources and target (main.py 2544-2554)
NewManager ==
  /\ RunEnded
  /\ runs < MaxRuns
  /\ bm_stop_flag' = FALSE
  /\ bm_stats' = ZeroLocalStats
  /\ mgr_runs' = 0
  /\ lpc' = "idle"
  /\ UNCHANGED <<lcfg, backup_path, all_files, li, dest, zip_entries, last_backup,
                 lout, runs, prev_clean, run_ok, run_copied, others>>

\* _collect_files, one source file per step: the flag is polled first; a
\* source that is missing or whose size cannot be read is left out
LocalCollectOne ==
  /\ lpc = "collect"
  /\ li <= MaxFiles
  /\ ~bm_stop_flag
  /\ IF src_present[li]
       THEN /\ all_files' = Append(all_files, li)
            /\ bm_stats' = [bm_stats EXCEPT !.total_size = @ + 1]
       ELSE UNCHANGED <<all_files, bm_stats>>
  /\ li' = li + 1
  /\ UNCHANGED <<lcfg, bm_stop_flag, backup_path, lpc, dest, zip_entries,
                 last_backup, lhist, lout, run_ok, run_copied, others>>

\* line 87: `if self.stats["total_files"] == 0`
NoFiles_mut(n) == FALSE
NoFiles(n) == n = 0

\* lines 84-91: total_files; an empty manifest ends the run at once
LocalCollected ==
  /\ lpc = "collect"
  /\ (li > MaxFiles \/ bm_stop_flag)
  /\ bm_stats' = [bm_stats EXCEPT !.total_files = Len(all_files)]
  /\ lpc' = IF NoFiles(Len(all_files)) THEN "returned" ELSE "setup"
  /\ li' = 1
  /\ UNCHANGED <<lcfg, bm_stop_flag, backup_path, all_files, dest, zip_entries,
                 last_backup, lhist, lout, run_ok, run_copied, others>>

\* what the executor's first lines leave inside backup_path. Tree copy
\* (lines 187-197): backup_metadata.json, then backup_log.txt with its header;
\* when one of the two cannot be opened the first may be there already.
\* Archive (lines 252-258): backup.zip alone, the metadata going into it.
SetupFiles(compress, openOk, metaOk) ==
  IF compress
    THEN (IF openOk THEN {"backup.zip"} ELSE {})
  ELSE IF openOk THEN {"backup_metadata.json", "backup_log.txt"}
  ELSE IF metaOk THEN {"backup_metadata.json"}
  ELSE {}

\* lines 187-197 (metadata and log file opened) or 252-258 (archive opened);
\* a failure here is not caught per item: start_backup raises
LocalSetup ==
  /\ lpc = "setup"
  /\ zip_entries' = <<>>
  /\ \E openOk \in BOOLEAN, metaOk \in BOOLEAN :
       /\ lpc' = IF ~openOk THEN "raised"
                 ELSE IF bm_compress THEN "archive" ELSE "copy"
       /\ run_ok' = (run_ok /\ openOk)
       /\ out_files' = [out_files EXCEPT ![backup_path] =
                          @ \cup SetupFiles(bm_compress, openOk, metaOk)]
       /\ backup_log' = IF openOk /\ ~bm_compress
                          THEN [NoLog EXCEPT !.header = TRUE]
                          ELSE backup_log
  /\ UNCHANGED <<lcfg, bm_stop_flag, bm_stats, backup_path, all_files, li, dest,
                 last_backup, lhist, progress, run_copied, others>>

\* lines 221 and 229: the item's line appended to backup_log.txt
LogLine(log, skip, pos) ==
  [log EXCEPT !.lines = Append(@, [kind |-> IF skip THEN "SKIPPED" ELSE "COPIED",
                                   pos |-> pos])]

\* the entry at a target path of the run's backup directory
Entry(f) == dest[<<backup_path, TargetPath(bm_preserve, f)>>]

\* lines 199-243, one item of the tree copy.
\*   ioError : makedirs or copy2 raises (before any counter is touched)
\*   smtOk, tmtOk : whether the two getmtime calls of the skip check succeed
\*   late : log.write or the progress callback raises after the item's
\*          counter was incremented
\* (the log callback is taken not to raise: start_backup calls it outside
\* every try block as well)
CopyItem(ioError, smtOk, tmtOk, late) ==
  /\ lpc = "copy"
  /\ li <= Len(all_files)
  /\ ~bm_stop_flag
  /\ LET f == all_files[li]
         e == Entry(f)
     IN   LET smt == IF smtOk THEN [ok |-> TRUE, val |-> src_mtime[f]]
                              ELSE [ok |-> FALSE, val |-> 0]
              tmt == IF tmtOk /\ e # Absent THEN [ok |-> TRUE, val |-> e.mtime]
                                            ELSE [ok |-> FALSE, val |-> 0]
              skip == bm_incremental /\ ShouldSkipFile(e # Absent, smt, tmt)
              counted1 == IF skip
                            THEN [bm_stats EXCEPT !.files_skipped = @ + 1]
                            ELSE [bm_stats EXCEPT !.files_copied = @ + 1]
          IN IF ioError
               THEN /\ bm_stats' = OnItemError(bm_stats)
                    /\ dest' = dest
                    /\ run_ok' = FALSE
                    /\ run_copied' = run_copied
                    /\ UNCHANGED <<backup_log, progress>>
               ELSE /\ bm_stats' = IF late THEN OnItemError(counted1) ELSE counted1
                    /\ \E logFailed \in BOOLEAN :
                         /\ logFailed => late
                         /\ (late /\ skip) => logFailed
                         /\ backup_log' = IF logFailed THEN backup_log
                                          ELSE LogLine(backup_log, skip, li)
                         /\ progress' = IF logFailed \/ skip THEN progress
                                        ELSE Append(progress, li)
                    /\ dest' = IF skip THEN dest
                               ELSE [dest EXCEPT ![<<backup_path, TargetPath(bm_preserve, f)>>] =
                                       [mtime |-> src_mtime[f], src |-> f]]
                    /\ run_ok' = (run_ok /\ ~late /\ smtOk /\ tmtOk)
                    /\ run_copied' = run_copied + (IF skip THEN 0 ELSE 1)
  /\ li' = li + 1
  /\ UNCHANGED <<lcfg, bm_stop_flag, backup_path, all_files, lpc, zip_entries,
                 last_backup, lhist, out_files, others>>

LocalCopyOne ==
  \E ioError \in BOOLEAN, smtOk \in BOOLEAN, tmtOk \in BOOLEAN, late \in BOOLEAN :
    CopyItem(ioError, smtOk, tmtOk, late)

\* lines 200-202 and 245-248: the loop ends, or breaks on the stop flag
LocalCopyEnd ==
  /\ lpc = "copy"
  /\ (li > Len(all_files) \/ bm_stop_flag)
  /\ lpc' = "save"
  /\ backup_log' = [backup_log EXCEPT !.footer =
                      [written |-> TRUE, copied |-> bm_stats.files_copied,
                       skipped |-> bm_stats.files_skipped]]
  /\ UNCHANGED <<lcfg, bm_stop_flag, bm_stats, backup_path, all_files, li, dest,
                 zip_entries, last_backup, lhist, progress, out_files, run_ok,
                 run_copied, others>>

\* lines 260-284, one item of the archive: no incremental check
ArchiveItem(ioError, late) ==
  /\ lpc = "archive"
  /\ li <= Len(all_files)
  /\ ~bm_stop_flag
  /\ LET f == all_files[li]
         counted1 == [bm_stats EXCEPT !.files_copied = @ + 1]
     IN   IF ioError
            THEN /\ bm_stats' = OnItemError(bm_stats)
                 /\ zip_entries' = zip_entries
                 /\ run_ok' = FALSE
                 /\ run_copied' = run_copied
                 /\ progress' = progress
            ELSE /\ bm_stats' = IF late THEN OnItemError(counted1) ELSE counted1
                 /\ zip_entries' = Append(zip_entries, f)
                 /\ progress' = Append(progress, li)
                 /\ run_ok' = (run_ok /\ ~late)
                 /\ run_copied' = run_copied + 1
  /\ li' = li + 1
  /\ UNCHANGED <<lcfg, bm_stop_flag, backup_path, all_files, lpc, dest,
                 last_backup, lhist, backup_log, out_files, others>>

LocalArchiveOne ==
  \E ioError \in BOOLEAN, late \in BOOLEAN : ArchiveItem(ioError, late)

\* lines 260-261 and 286: the loop ends, or breaks on the stop flag
LocalArchiveEnd ==
  /\ lpc = "archive"
  /\ (li > Len(all_files) \/ bm_stop_flag)
  /\ lpc' = "save"
  /\ UNCHANGED <<lcfg, bm_stop_flag, bm_stats, backup_path, all_files, li, dest,
                 zip_entries, last_backup, lhist, lout, run_ok, run_copied, others>>

\* lines 99-109: save_backup_info writes last_backup.json from self.stats,
\* then end_time is set and the success lines are logged
LocalSave ==
  /\ lpc = "save"
  /\ \E writeOk \in BOOLEAN :
       IF writeOk
         THEN /\ last_backup' = [written |-> TRUE, backup_path |-> backup_path,
                                 stats |-> bm_stats]
              /\ bm_stats' = [bm_stats EXCEPT !.end_time = TRUE]
              /\ lpc' = "returned"
              /\ run_ok' = run_ok
         ELSE /\ lpc' = "raised"
              /\ run_ok' = FALSE
              /\ UNCHANGED <<last_backup, bm_stats>>
  /\ UNCHANGED <<lcfg, bm_stop_flag, backup_path, all_files, li, dest,
                 zip_entries, lhist, lout, run_copied, others>>

LocalNext ==
  \/ LocalStop
  \/ LocalStart
  \/ LocalCollectOne
  \/ LocalCollected
  \/ LocalSetup
  \/ LocalCopyOne
  \/ LocalCopyEnd
  \/ LocalArchiveOne
  \/ LocalArchiveEnd
  \/ LocalSave

LocalInit ==
  /\ bm_incremental \in BOOLEAN
  /\ bm_compress \in BOOLEAN
  /\ bm_preserve \in BOOLEAN
  /\ src_present \in [LFiles -> BOOLEAN]
  /\ src_mtime \in [LFiles -> Mtimes]
  /\ \A f \in LFiles : ~src_present[f] => src_mtime[f] = 1
  /\ LocalConstructed
  /\ LocalWorld
  /\ RemoteIdle
  /\ PureIdle

\* one start_backup on a new BackupManager
LocalSpec == LocalInit /\ [][LocalNext]_vars

LocalRerunNext ==
  \/ LocalNext
  \/ LocalRestart
  \/ NewManager

\* up to MaxRuns invocations, on the same BackupManager or on new ones
LocalRerunSpec == LocalInit /\ [][LocalRerunNext]_vars

\* =============================================================== pure functions
\* _should_skip_incremental applied to one file
ApplyRemote ==
  /\ p_fn = "remote"
  /\ ~p_res.applied
  /\ LET r == ShouldSkipIncremental(p_args.inc, p_args.hash, p_args.st, p_args.loc,
                                    p_args.side, p_args.md5)
     IN p_res' = [applied |-> TRUE, ret |-> r.ret, statCalled |-> r.statCalled,
                  sidecarRead |-> r.sidecarRead]
  /\ UNCHANGED <<p_fn, p_args, mkvars, gvars, rvars, lvars>>

\* _should_skip_file applied to one file
ApplyLocal ==
  /\ p_fn = "local"
  /\ ~p_res.applied
  /\ p_res' = [applied |-> TRUE,
               ret |-> ShouldSkipFile(p_args.texists, p_args.smt, p_args.tmt),
               statCalled |-> FALSE, sidecarRead |-> FALSE]
  /\ UNCHANGED <<p_fn, p_args, mkvars, gvars, rvars, lvars>>

SkipNext ==
  \/ ApplyRemote
  \/ ApplyLocal

SkipInit ==
  /\ \/ /\ p_fn = "remote"
        /\ \E inc \in BOOLEAN, hash \in BOOLEAN, st \in StatResults,
              loc \in LocalStats, side \in SidecarReads, md5 \in LocalHashes :
             p_args = [NoArgs EXCEPT !.inc = inc, !.hash = hash, !.st = st,
                                     !.loc = loc, !.side = side, !.md5 = md5]
     \/ /\ p_fn = "local"
        /\ \E texists \in BOOLEAN, smt \in MtimeReads, tmt \in MtimeReads :
             p_args = [NoArgs EXCEPT !.texists = texists, !.smt = smt, !.tmt = tmt]
  /\ p_res = NoResult
  /\ MkdirIdle
  /\ GuiIdle
  /\ SchedIdle
  /\ RemoteIdle
  /\ LocalIdle

SkipSpec == SkipInit /\ [][SkipNext]_vars

\* =============================================================== collection
\* One entry of the sources, as the collectors meet it:
\*   kind        "directory": a file found by os.walk under a source directory
\*               "file": a path of source_files
\*   exists      the source directory (kind "directory") or the loose file
\*               (kind "file") exists
\*   hidden_dir  the file lies under a subdirectory whose name starts with '.'
\*   hidden_name the file's own name starts with '.'
\*   size_ok     os.path.getsize of the file succeeds
SourceEntries ==
  {e \in [kind : {"directory", "file"}, exists : BOOLEAN, hidden_dir : BOOLEAN,
          hidden_name : BOOLEAN, size_ok : BOOLEAN] :
     /\ (e.kind = "file" => ~e.hidden_dir)
     /\ (~e.exists => ~e.size_ok)}

SourceTrees == UNION {[1..n -> SourceEntries] : n \in 0..MaxEntries}

\* the entries of one kind, in the order the sources list them
OfKind(tree, kind) == SelectSeq(tree, LAMBDA e : e.kind = kind)

\* the relative path of the entry has a segment starting with '.'
HiddenPath(e) == e.hidden_dir \/ e.hidden_name

\* BackupManager._collect_files, per entry. Under a source directory: a
\* missing directory is skipped (lines 122-124), hidden directories are pruned
\* and hidden files passed over when skip_hidden (lines 127-136), a file whose
\* size cannot be read is left out (lines 138-154). A loose file: missing or
\* unreadable is left out (lines 160-179); its name is not looked at.
LocalKeeps(e, skip_hidden) ==
  IF e.kind = "directory"
    THEN e.exists /\ ~(skip_hidden /\ HiddenPath(e)) /\ e.size_ok
    ELSE e.exists /\ e.size_ok

\* the entry makes BackupManager._collect_files log a warning
LocalWarns(e, skip_hidden) ==
  IF e.kind = "directory"
    THEN \/ ~e.exists
         \/ (~(skip_hidden /\ HiddenPath(e)) /\ ~e.size_ok)
    ELSE ~e.exists \/ ~e.size_ok

\* ParallelSSHBackupWorker._collect_files, per entry. Under a source
\* directory: os.walk of a missing directory yields nothing, hidden
\* directories are pruned and hidden files passed over when skip_hidden
\* (lines 331-344); the size is read afterwards and an error there is ignored
\* (lines 366-371). A loose file: passed over when hidden and skip_hidden
\* (lines 358-360), appended otherwise, without looking at the file.
RemoteKeeps(e, skip_hidden) ==
  IF e.kind = "directory"
    THEN e.exists /\ ~(skip_hidden /\ HiddenPath(e))
    ELSE ~(skip_hidden /\ e.hidden_name)

\* ParallelSSHBackupWorker._collect_files logs nothing
RemoteWarns(e, skip_hidden) == FALSE

\* BackupManager._collect_files: the list returned (the files of the source
\* directories first, then the loose files) and the number of warnings logged
LocalCollectFiles(tree, skip_hidden) ==
  [manifest |->
     SelectSeq(OfKind(tree, "directory"), LAMBDA e : LocalKeeps(e, skip_hidden)) \o
     SelectSeq(OfKind(tree, "file"), LAMBDA e : LocalKeeps(e, skip_hidden)),
   warnings |-> Cardinality({i \in DOMAIN tree : LocalWarns(tree[i], skip_hidden)})]

\* ParallelSSHBackupWorker._collect_files: the same two values
RemoteCollectFiles(tree, skip_hidden) ==
  [manifest |->
     SelectSeq(OfKind(tree, "directory"), LAMBDA e : RemoteKeeps(e, skip_hidden)) \o
     SelectSeq(OfKind(tree, "file"), LAMBDA e : RemoteKeeps(e, skip_hidden)),
   warnings |-> Cardinality({i \in DOMAIN tree : RemoteWarns(tree[i], skip_hidden)})]

\* =============================================================== last_backup.json
\* what <target_dir>/last_backup.json can be when a BackupManager is built
LastBackupFiles == {"missing", "unreadable", "invalid", "valid"}

\* lines 349-350: what open() or json.load() raises on the file
LoadRaises(file) ==
  IF file = "unreadable" THEN "OSError"
  ELSE IF file = "invalid" THEN "JSONDecodeError"
  ELSE "none"

\* line 351: a bare `except:` catches whatever was raised
BareExcept_mut(exc) == exc = "OSError"

BareExcept(exc) == TRUE

\* load_last_backup_info, lines 345-353
LoadLastBackupInfo(file) ==
  IF file = "missing"
    THEN [raised |-> FALSE, value |-> "None"]
  ELSE IF LoadRaises(file) = "none"
    THEN [raised |-> FALSE, value |-> "dict"]
  ELSE IF BareExcept(LoadRaises(file))
    THEN [raised |-> FALSE, value |-> "None"]
  ELSE [raised |-> TRUE, value |-> "None"]

\* =============================================================== _upload_file
\* lines 452-459: the sidecar <remote_path>.hash holds the digest when the put
\* went through, use_hash_check is on, the local MD5 could be computed and
\* the write of the sidecar succeeded; a failed write is passed over
SidecarWritten_mut(hash, putOk, md5Ok, sideOk) == putOk /\ md5Ok /\ sideOk

SidecarWritten(hash, putOk, md5Ok, sideOk) == putOk /\ hash /\ md5Ok /\ sideOk

\* _upload_file: the value returned (True counts the item in files_copied,
\* False in failed) and what it left on the remote side
UploadFile(hash, putOk, md5Ok, sideOk) ==
  [ret |-> UploadResult(hash, putOk, md5Ok),
   uploaded |-> putOk,
   sidecar |-> SidecarWritten(hash, putOk, md5Ok, sideOk)]

\* BackupManager._collect_files applied to a source tree
ApplyLocalCollect ==
  /\ p_fn = "collect_local"
  /\ ~p_res.applied
  /\ LET r == LocalCollectFiles(p_args.tree, p_args.skip_hidden)
     IN p_res' = [applied |-> TRUE, manifest |-> r.manifest, warnings |-> r.warnings]
  /\ UNCHANGED <<p_fn, p_args, mkvars, gvars, rvars, lvars>>

\* ParallelSSHBackupWorker._collect_files applied to a source tree
ApplyRemoteCollect ==
  /\ p_fn = "collect_remote"
  /\ ~p_res.applied
  /\ LET r == RemoteCollectFiles(p_args.tree, p_args.skip_hidden)
     IN p_res' = [applied |-> TRUE, manifest |-> r.manifest, warnings |-> r.warnings]
  /\ UNCHANGED <<p_fn, p_args, mkvars, gvars, rvars, lvars>>

\* BackupManager.__init__ up to line 52: the constructor raises when
\* load_last_backup_info does
ApplyLoad ==
  /\ p_fn = "load"
  /\ ~p_res.applied
  /\ LET r == LoadLastBackupInfo(p_args.file)
     IN p_res' = [applied |-> TRUE, raised |-> r.raised, value |-> r.value,
                  constructed |-> ~r.raised]
  /\ UNCHANGED <<p_fn, p_args, mkvars, gvars, rvars, lvars>>

\* _upload_file applied to one item whose remote path holds no sidecar yet
ApplyUpload ==
  /\ p_fn = "upload"
  /\ ~p_res.applied
  /\ LET r == UploadFile(p_args.hash, p_args.putOk, p_args.md5Ok, p_args.sideOk)
     IN p_res' = [applied |-> TRUE, ret |-> r.ret, uploaded |-> r.uploaded,
                  sidecar |-> r.sidecar, counter |-> UploadCounter(r.ret)]
  /\ UNCHANGED <<p_fn, p_args, mkvars, gvars, rvars, lvars>>

\* ------------------------------------------------------------ path rules
\* A source directory, as a normalised path: absolute or relative to the
\* working directory, and its components. Two different values name two
\* different directories.
PartNames == {"a", "b:", "b_"}
SourceDirs ==
  [abs : BOOLEAN,
   parts : UNION {[1..n -> PartNames] : n \in 1..MaxParts}]

\* str.replace(":", "_") on one component
ReplaceColon(name) == IF name = "b:" THEN "b_" ELSE name

\* lines 211 and 269: source_root.replace(":", "_").lstrip("/")
SanitizeRoot(dir) ==
  [abs |-> FALSE, parts |-> [k \in 1..Len(dir.parts) |-> ReplaceColon(dir.parts[k])]]

\* lines 208-215 and 267-273 with preserve_structure on, for an item found by
\* walking source_root: the path below backup_path
PreservedTarget(dir, rel) == SanitizeRoot(dir).parts \o rel

\* main.py line 324: os.path.basename(src_dir.rstrip("\\/"))
BaseName(dir) == dir.parts[Len(dir.parts)]

\* main.py lines 346-347 with preserve_structure on: remote_rel, the path
\* below the remote target directory
RemoteRel(dir, rel) == <<BaseName(dir)>> \o rel

\* the target paths of the file at `rel` below each of two source directories
ApplyLocalTarget ==
  /\ p_fn = "local_target"
  /\ ~p_res.applied
  /\ p_res' = [applied |-> TRUE,
               t1 |-> PreservedTarget(p_args.dir1, p_args.rel),
               t2 |-> PreservedTarget(p_args.dir2, p_args.rel)]
  /\ UNCHANGED <<p_fn, p_args, mkvars, gvars, rvars, lvars>>

ApplyRemoteTarget ==
  /\ p_fn = "remote_target"
  /\ ~p_res.applied
  /\ p_res' = [applied |-> TRUE,
               t1 |-> RemoteRel(p_args.dir1, p_args.rel),
               t2 |-> RemoteRel(p_args.dir2, p_args.rel)]
  /\ UNCHANGED <<p_fn, p_args, mkvars, gvars, rvars, lvars>>

HelperNext ==
  \/ ApplyLocalCollect
  \/ ApplyRemoteCollect
  \/ ApplyLoad
  \/ ApplyUpload
  \/ ApplyLocalTarget
  \/ ApplyRemoteTarget

HelperInit ==
  /\ \/ /\ p_fn \in {"collect_local", "collect_remote"}
        /\ \E tree \in SourceTrees, skip_hidden \in BOOLEAN :
             p_args = [tree |-> tree, skip_hidden |-> skip_hidden]
        /\ p_res = [applied |-> FALSE, manifest |-> <<>>, warnings |-> 0]
     \/ /\ p_fn = "load"
        /\ \E file \in LastBackupFiles : p_args = [file |-> file]
        /\ p_res = [applied |-> FALSE, raised |-> FALSE, value |-> "None",
                    constructed |-> FALSE]
     \/ /\ p_fn = "upload"
        /\ \E hash \in BOOLEAN, putOk \in BOOLEAN, md5Ok \in BOOLEAN,
              sideOk \in BOOLEAN :
             p_args = [hash |-> hash, putOk |-> putOk, md5Ok |-> md5Ok,
                       sideOk |-> sideOk]
        /\ p_res = [applied |-> FALSE, ret |-> FALSE, uploaded |-> FALSE,
                    sidecar |-> FALSE, counter |-> "none"]
     \/ /\ p_fn \in {"local_target", "remote_target"}
        /\ \E dir1 \in SourceDirs, dir2 \in SourceDirs :
             p_args = [dir1 |-> dir1, dir2 |-> dir2, rel |-> <<"a">>]
        /\ p_res = [applied |-> FALSE, t1 |-> <<>>, t2 |-> <<>>]
  /\ MkdirIdle
  /\ GuiIdle
  /\ SchedIdle
  /\ RemoteIdle
  /\ LocalIdle

HelperSpec == HelperInit /\ [][HelperNext]_vars

\* ================================================================= _mkdirs
\* The upload threads run _upload_file at once, over one session, for items
\* whose remote directories lie on one path: directory k is the path made of
\* its first k parts, and a worker's remote_dir has mdepth[w] parts.

\* lines 399-403: what becomes of an exception of sftp.mkdir
MkdirFaultIgnored_mut(fault) == fault # "exists"
MkdirFaultIgnored(fault) == TRUE

\* sftp.mkdir(cur) on the server: the fault it answers with, "none" when the
\* directory is made
MkdirFault(dirs, cur, refused) ==
  IF cur \in dirs THEN "exists"
  ELSE IF cur > 1 /\ (cur - 1) \notin dirs THEN "noparent"
  ELSE IF refused THEN "denied"
  ELSE "none"

\* the loop of lines 393-403 goes to the next part, or _mkdirs returns and
\* line 449 (sftp.put) is next
NextPart(w) ==
  IF mcur[w] < mdepth[w]
    THEN /\ mcur' = [mcur EXCEPT ![w] = @ + 1]
         /\ mpc' = [mpc EXCEPT ![w] = "stat"]
    ELSE /\ mcur' = mcur
         /\ mpc' = [mpc EXCEPT ![w] = "put"]

\* lines 446-447 and 387-389: _upload_file calls _mkdirs; "/" has nothing
\* to create
MkdirsEnter(w) ==
  /\ mpc[w] = "idle"
  /\ IF mdepth[w] = 0
       THEN mpc' = [mpc EXCEPT ![w] = "put"] /\ mcur' = mcur
       ELSE mpc' = [mpc EXCEPT ![w] = "stat"] /\ mcur' = [mcur EXCEPT ![w] = 1]
  /\ UNCHANGED <<rdirs, mdepth, mres, mraced, mdenied, p_fn, p_args, p_res,
                 gvars, rvars, lvars>>

\* lines 397-399: sftp.stat(cur) raises when the directory is missing, and
\* may raise for another reason when it is there
MkdirsStat(w) ==
  /\ mpc[w] = "stat"
  /\ \E statFault \in BOOLEAN :
       IF mcur[w] \notin rdirs
         THEN mpc' = [mpc EXCEPT ![w] = "mkdir"] /\ mcur' = mcur
       ELSE IF statFault
         THEN mpc' = [mpc EXCEPT ![w] = "mkdir_present"] /\ mcur' = mcur
       ELSE NextPart(w)
  /\ UNCHANGED <<rdirs, mdepth, mres, mraced, mdenied, p_fn, p_args, p_res,
                 gvars, rvars, lvars>>

\* lines 400-403: sftp.mkdir(cur); its exception is passed over. An exception
\* that is not would leave _mkdirs and end _upload_file at lines 462-464.
MkdirsMkdir(w) ==
  /\ mpc[w] \in {"mkdir", "mkdir_present"}
  /\ \E refused \in BOOLEAN :
       LET fault == MkdirFault(rdirs, mcur[w], refused) IN
         /\ rdirs' = IF fault = "none" THEN rdirs \cup {mcur[w]} ELSE rdirs
         /\ mdenied' = (mdenied \/ fault = "denied")
         /\ mraced' = [mraced EXCEPT ![w] = @ \/ (mpc[w] = "mkdir" /\ fault = "exists")]
         /\ IF fault = "none" \/ MkdirFaultIgnored(fault)
              THEN NextPart(w) /\ mres' = mres
              ELSE /\ mpc' = [mpc EXCEPT ![w] = "done"]
                   /\ mres' = [mres EXCEPT ![w] = "mkdirs_raised"]
                   /\ mcur' = mcur
  /\ UNCHANGED <<mdepth, p_fn, p_args, p_res, gvars, rvars, lvars>>

\* lines 449-464: sftp.put needs the directory of remote_path; True goes to
\* files_copied and False to failed (lines 482-487)
MkdirsPut(w) ==
  /\ mpc[w] = "put"
  /\ \E putOk \in BOOLEAN :
       mres' = [mres EXCEPT ![w] =
                  IF ~(1..mdepth[w] \subseteq rdirs) THEN "no_directory"
                  ELSE IF putOk THEN "files_copied"
                  ELSE "put_failed"]
  /\ mpc' = [mpc EXCEPT ![w] = "done"]
  /\ UNCHANGED <<rdirs, mdepth, mcur, mraced, mdenied, p_fn, p_args, p_res,
                 gvars, rvars, lvars>>

MkdirNext ==
  \E w \in Workers :
    \/ MkdirsEnter(w)
    \/ MkdirsStat(w)
    \/ MkdirsMkdir(w)
    \/ MkdirsPut(w)

\* the remote tree holds the first directories of the path, or none
MkdirInit ==
  /\ rdirs \in {1..d : d \in 0..MaxDepth}
  /\ mdepth \in [Workers -> 0..MaxDepth]
  /\ MkdirsNotStarted
  /\ p_fn = "none"
  /\ p_args = NoArgs
  /\ p_res = NoResult
  /\ GuiIdle
  /\ SchedIdle
  /\ RemoteIdle
  /\ LocalIdle

MkdirSpec == MkdirInit /\ [][MkdirNext]_vars

\* ============================================================= application
\* PoogaloBackup.start_backup (main.py lines 2526-2530) is the handler of the
\* one button: it starts a backup when backup_in_progress is off and stops
\* the running one when it is on.

\* lines 2526-2528 and 2532-2610: the sources and the target are checked
\* (a check that fails logs and returns), a new worker object and its thread
\* are made, backup_in_progress is set and the thread is started
StartBackupProcess ==
  /\ ~backup_in_progress
  /\ presses < MaxPresses
  /\ presses' = presses + 1
  /\ \E inputsOk \in BOOLEAN :
       IF inputsOk
         THEN /\ backup_threads' = Append(backup_threads, "running")
              /\ backup_in_progress' = TRUE
         ELSE UNCHANGED <<backup_threads, backup_in_progress>>
  /\ UNCHANGED <<sch_pc, sch_stop, sch_occ, sch_at, sch_fired, p_fn, p_args,
                 p_res, mkvars, rvars, lvars>>

\* lines 2529-2530 and 2612-2625: backup_worker.stop() sets the worker's
\* flag, and backup_in_progress is cleared at once; the thread is not joined
StopBackupProcess ==
  /\ backup_in_progress
  /\ presses < MaxPresses
  /\ presses' = presses + 1
  /\ backup_threads' =
       [backup_threads EXCEPT ![Len(backup_threads)] =
          IF @ = "running" THEN "stopping" ELSE @]
  /\ backup_in_progress' = FALSE
  /\ UNCHANGED <<sch_pc, sch_stop, sch_occ, sch_at, sch_fired, p_fn, p_args,
                 p_res, mkvars, rvars, lvars>>

\* the worker's start_backup returns: at the end of its work, or after
\* stop() once the item in flight is done
BackupThreadEnds ==
  /\ \E k \in 1..Len(backup_threads) :
       /\ backup_threads[k] # "finished"
       /\ backup_threads' = [backup_threads EXCEPT ![k] = "finished"]
  /\ UNCHANGED <<backup_in_progress, presses, sch_pc, sch_stop, sch_occ, sch_at,
                 sch_fired, p_fn, p_args, p_res, mkvars, rvars, lvars>>

\* lines 2646-2650: the monitor finds self.backup_thread ended with
\* backup_in_progress still on, and backup_finished clears it
BackupFinished ==
  /\ backup_in_progress
  /\ backup_threads[Len(backup_threads)] = "finished"
  /\ backup_in_progress' = FALSE
  /\ UNCHANGED <<backup_threads, presses, sch_pc, sch_stop, sch_occ, sch_at,
                 sch_fired, p_fn, p_args, p_res, mkvars, rvars, lvars>>

AppNext ==
  \/ StartBackupProcess
  \/ StopBackupProcess
  \/ BackupThreadEnds
  \/ BackupFinished

AppInit ==
  /\ GuiIdle
  /\ SchedIdle
  /\ p_fn = "none"
  /\ p_args = NoArgs
  /\ p_res = NoResult
  /\ MkdirIdle
  /\ RemoteIdle
  /\ LocalIdle

AppSpec == AppInit /\ [][AppNext]_vars

\* =============================================================== scheduler
\* BackupScheduler (backup_logic.py lines 396-421). The clock is seen through
\* what the polls can tell: sch_at says that now is within the scheduled
\* hour and minute, sch_occ counts the days on which that minute has come.
sgui == <<backup_in_progress, backup_threads, presses>>
sframe == <<p_fn, p_args, p_res, mkvars, rvars, lvars>>

\* lines 404-408: the flag is cleared and the thread started
ScheduleDaily ==
  /\ sch_pc = "none"
  /\ sch_stop' = FALSE
  /\ sch_pc' = "poll"
  /\ UNCHANGED <<sch_occ, sch_at, sch_fired, sgui, sframe>>

\* lines 411-414: the loop condition, then the comparison of now with the
\* scheduled hour and minute; a match calls backup_manager.start_backup()
SchedPoll ==
  /\ sch_pc = "poll"
  /\ IF sch_stop
       THEN sch_pc' = "exited" /\ sch_fired' = sch_fired
     ELSE IF sch_at
       THEN /\ sch_pc' = "backup"
            /\ sch_fired' = [sch_fired EXCEPT ![sch_occ] = @ + 1]
     ELSE sch_pc' = "sleep_minute" /\ sch_fired' = sch_fired
  /\ UNCHANGED <<sch_stop, sch_occ, sch_at, sgui, sframe>>

\* line 414: start_backup returns, or raises what it logged (lines 111-113);
\* _daily_schedule has no handler, so the exception ends the thread
SchedBackupEnds ==
  /\ sch_pc = "backup"
  /\ \E raised \in BOOLEAN :
       sch_pc' = IF raised THEN "dead" ELSE "sleep_hour"
  /\ UNCHANGED <<sch_stop, sch_occ, sch_at, sch_fired, sgui, sframe>>

\* line 415: time.sleep(3600); an hour later the scheduled minute is over
\* and the next one has not come
SchedSleepHour ==
  /\ sch_pc = "sleep_hour"
  /\ sch_at' = FALSE
  /\ sch_pc' = "sleep_minute"
  /\ UNCHANGED <<sch_stop, sch_occ, sch_fired, sgui, sframe>>

\* line 416: time.sleep(60); a minute (or more) later the scheduled minute
\* is over if it was on, and may have come if it was not
SchedSleepMinute ==
  /\ sch_pc = "sleep_minute"
  /\ sch_pc' = "poll"
  /\ \/ sch_at' = FALSE /\ sch_occ' = sch_occ
     \/ /\ ~sch_at
        /\ sch_occ < MaxOccurrences
        /\ sch_at' = TRUE
        /\ sch_occ' = sch_occ + 1
  /\ UNCHANGED <<sch_stop, sch_fired, sgui, sframe>>

\* lines 418-421: stop_schedule sets the flag (the join only waits)
StopSchedule ==
  /\ sch_pc # "none"
  /\ ~sch_stop
  /\ sch_stop' = TRUE
  /\ UNCHANGED <<sch_pc, sch_occ, sch_at, sch_fired, sgui, sframe>>

SchedNext ==
  \/ ScheduleDaily
  \/ SchedPoll
  \/ SchedBackupEnds
  \/ SchedSleepHour
  \/ SchedSleepMinute
  \/ StopSchedule

\* schedule_daily may be called within the scheduled minute
SchedInit ==
  /\ sch_pc = "none"
  /\ sch_stop = FALSE
  /\ sch_at \in BOOLEAN
  /\ sch_occ = (IF sch_at THEN 1 ELSE 0)
  /\ sch_fired = [o \in 1..MaxOccurrences |-> 0]
  /\ GuiIdle
  /\ p_fn = "none"
  /\ p_args = NoArgs
  /\ p_res = NoResult
  /\ MkdirIdle
  /\ RemoteIdle
  /\ LocalIdle

SchedSpec == SchedInit /\ [][SchedNext]_vars

\* ------------------------------------------------------------- remote claims
Counters == {"files_copied", "skipped", "failed"}
CounterSum == stats.files_copied + stats.skipped + stats.failed
Holders(i) == {w \in Workers : witem[w] = i}
Idle(w) == witem[w] = 0
CanProgress == ENABLED MainStep \/ \E w \in Workers : ENABLED WorkerStep(w)
RunIsOver == rpc = "returned"

C3_SessionReleased == (sftp = "open") => CanProgress

\* C4 as stated: once some worker has read the flag set, nothing leaves the
\* queue any more.
C4_Original == [][(\E w \in Workers : observed[w]) => queue' = queue]_vars

\* C4 (amended): a worker that has read the flag set dequeues no further item
\* and holds none (what it pulled before was counted); a worker that passed
\* its poll before stop() may still pull one item; once every worker has read
\* the flag set the remainder of the queue stays where it is, and an item in
\* the queue is counted in no counter.
C4_StopLeavesRemainder ==
  /\ [][\A w \in Workers : observed[w] => witem'[w] = 0]_vars
  /\ [][(\A w \in 1..max_workers : observed[w]) => queue' = queue /\ stats' = stats]_vars
  /\ [](\A w \in Workers : observed[w] => Idle(w))
  /\ [](\A k \in 1..Len(queue) : deq[queue[k]] = 0 /\ counted[queue[k]] = 0)
  /\ [](\A i \in ItemIds : (deq[i] > 0 /\ Holders(i) = {}) => counted[i] = 1)

C4_Witness ==
  /\ \A w \in 1..max_workers : observed[w]
  /\ queue # <<>>
  /\ \E i \in ItemIds : counted[i] = 1

\* C5: every item is dequeued at most once and held by at most one worker,
\* is counted exactly once (in exactly one counter) by the time it is marked
\* done, and no counter update is lost: the three counters add up to the
\* increments made.
C5_ExactlyOnce ==
  /\ \A i \in ItemIds :
       /\ deq[i] <= 1
       /\ counted[i] <= 1
       /\ done[i] <= 1
       /\ Cardinality(Holders(i)) <= 1
       /\ done[i] = 1 => counted[i] = 1
       /\ (deq[i] = 1 /\ Holders(i) = {}) => (counted[i] = 1 /\ done[i] = 1)
  /\ CounterSum = Cardinality({i \in ItemIds : counted[i] = 1})

C5_Witness ==
  \E w1 \in Workers, w2 \in Workers :
    /\ w1 # w2
    /\ wpc[w1] = "write" /\ wpc[w2] = "acquire"
    /\ wctr[w1] = wctr[w2]

\* C6: with incremental off, a run that completes over n items of which k
\* uploads failed ends with files_copied = n - k, failed = k, skipped = 0,
\* and no item is put more than once.
C6_FailuresCounted ==
  /\ \A w \in Workers : wput[w] <= 1
  /\ (routcome = "completed" /\ ~incremental) =>
       /\ stats.files_copied = Len(items) - upload_failures
       /\ stats.failed = upload_failures
       /\ stats.skipped = 0

C6_Witness ==
  /\ routcome = "completed" /\ ~incremental
  /\ max_workers = MaxWorkers
  /\ Len(items) = MaxItems
  /\ stats.failed = 1
  /\ stats.files_copied = MaxItems - 1

\* ------------------------------------------------------------- local claims
\* C1: when a run that went through its executor returns (and was not
\* cancelled), the counters add up to the size of the manifest; the local
\* executor counts failed items as skipped, so files_copied + files_skipped
\* = total_files.
C1_CountersAddUp ==
  (lpc = "returned" /\ Len(all_files) > 0 /\ ~bm_stop_flag) =>
    bm_stats.files_copied + bm_stats.files_skipped = bm_stats.total_files

\* C7: a second incremental tree-copy run over the same sources and target,
\* after a first run that copied every file, copies nothing and skips every
\* file. (Taken on a new BackupManager, with no fault and no stop() in
\* either run.)
C7_SecondRunSkipsAll ==
  (/\ lpc = "returned"
   /\ runs >= 2
   /\ mgr_runs = 1
   /\ prev_clean
   /\ run_ok
   /\ bm_incremental
   /\ ~bm_compress)
  => /\ bm_stats.files_copied = 0
     /\ bm_stats.files_skipped = bm_stats.total_files

\* ------------------------------------------------------------- skip decisions
Applied(fn) == p_fn = fn /\ p_res.applied

\* C8: a transport error in a remote call the check made (the stat of the
\* remote file, the read of the sidecar) means the file is not skipped.
C8_ErrorMeansNoSkip ==
  (/\ Applied("remote")
   /\ \/ (p_res.statCalled /\ ~p_args.st.ok)
      \/ (p_res.sidecarRead /\ ~p_args.side.ok))
  => ~p_res.ret

C8_Witness ==
  /\ Applied("remote")
  /\ p_res.statCalled /\ ~p_args.st.ok
  /\ p_res.sidecarRead /\ p_args.side.ok /\ p_args.md5.ok
  /\ p_args.side.val = p_args.md5.val
  /\ ~p_res.ret

\* the two-tier rule of the specification, on the values themselves: times
\* compared as they are (the local one is in half seconds), digests compared
\* as text
TwoTierRule(a) ==
  /\ a.inc
  /\ \/ /\ a.st.ok /\ a.loc.ok
        /\ a.st.st_size = a.loc.size
        /\ 2 * a.st.st_mtime >= a.loc.mtime
     \/ /\ a.hash
        /\ a.side.ok /\ a.md5.ok
        /\ a.side.val = a.md5.val

\* C9: the remote skip decision equals the two-tier rule for every
\* combination of flags and remote state, and the sidecar is not read when
\* use_hash_check is off.
C9_EqualsTwoTierRule ==
  Applied("remote") =>
    /\ p_res.ret <=> TwoTierRule(p_args)
    /\ ~p_args.hash => ~p_res.sidecarRead

\* C10: _should_skip_file returns True iff the target exists, both
\* modification times can be read and the target's is >= the source's.
C10_LocalSkipRule ==
  Applied("local") =>
    (p_res.ret <=>
       /\ p_args.texists
       /\ p_args.smt.ok
       /\ p_args.tmt.ok
       /\ p_args.tmt.val >= p_args.smt.val)

C10_Witness ==
  /\ Applied("local")
  /\ p_args.texists /\ p_args.smt.ok /\ p_args.tmt.ok
  /\ p_args.tmt.val = p_args.smt.val
  /\ p_res.ret

\* ------------------------------------------------------------- collection claims
InManifest(e) == \E i \in DOMAIN p_res.manifest : p_res.manifest[i] = e
Collected == p_fn \in {"collect_local", "collect_remote"} /\ p_res.applied

\* a source that is missing or unreadable and that the walk comes to (a
\* missing source directory, or an entry not excluded as hidden)
BadVisited(e, skip_hidden) ==
  /\ ~e.size_ok
  /\ \/ (e.kind = "directory" /\ ~e.exists)
     \/ ~(skip_hidden /\ HiddenPath(e))

\* C11: with skip_hidden on, the manifest of either collector holds no item
\* whose relative path has a segment starting with '.', from a source
\* directory or from the loose files.
C11_NoHiddenInManifest ==
  (Collected /\ p_args.skip_hidden) =>
    \A i \in DOMAIN p_res.manifest : ~HiddenPath(p_res.manifest[i])

\* C12: in either collector the manifest holds no source that is missing or
\* whose size cannot be read, every entry so left out is logged as a warning,
\* and every other source (not excluded as hidden) is collected.
C12_BadEntriesLeftOut ==
  Collected =>
    /\ \A i \in DOMAIN p_res.manifest :
         p_res.manifest[i].exists /\ p_res.manifest[i].size_ok
    /\ \A i \in DOMAIN p_args.tree :
         LET e == p_args.tree[i]
         IN (e.exists /\ e.size_ok /\ ~(p_args.skip_hidden /\ HiddenPath(e)))
              => InManifest(e)
    /\ p_res.warnings >=
         Cardinality({i \in DOMAIN p_args.tree :
                        BadVisited(p_args.tree[i], p_args.skip_hidden)})

\* C20: load_last_backup_info never raises, it returns None when the file is
\* missing, unreadable or not valid JSON, and the constructor succeeds
\* whatever the file is.
C20_LoadNeverRaises ==
  (p_fn = "load" /\ p_res.applied) =>
    /\ ~p_res.raised
    /\ p_res.constructed
    /\ (p_args.file # "valid" => p_res.value = "None")

C20_Witness ==
  /\ p_fn = "load" /\ p_res.applied
  /\ p_args.file = "invalid"
  /\ p_res.value = "None"
  /\ p_res.constructed

\* ------------------------------------------------------------- cancellation, faults
\* the items whose iteration the loop in progress has entered
Entered == li - 1

\* the file of manifest position j lies in the run's backup directory
AtDestination(j) ==
  \E t \in Targets : dest[<<backup_path, t>>].src = all_files[j]

\* start_backup logged its success lines (lines 101-109; one run of a manager)
ReportedSuccess == lpc = "returned" /\ bm_stats.end_time

\* the item loop was left on the stop flag with items still to do
Cancelled ==
  /\ bm_stop_flag
  /\ lpc \in {"save", "returned", "raised"}
  /\ Len(all_files) > 0
  /\ li <= Len(all_files)

\* C13: in a tree-copy run the flag is checked before each item: once it is
\* set no further item is copied or skipped, files_copied + files_skipped is
\* at most the number of items entered, the items not entered have no file at
\* the destination, and leaving the loop on the flag does not raise.
C13_StopBoundsWork ==
  /\ [][(lpc = "copy" /\ bm_stop_flag) =>
          (bm_stats' = bm_stats /\ dest' = dest /\ lpc' \in {"copy", "save"})]_vars
  /\ []((~bm_compress /\ bm_stop_flag /\ lpc \in {"copy", "save", "returned"}
         /\ Len(all_files) > 0)
        => /\ bm_stats.files_copied + bm_stats.files_skipped <= Entered
           /\ \A j \in (Entered + 1)..Len(all_files) : ~AtDestination(j))

\* C14: a run cancelled by stop() is not reported as a successful completion.
C14_CancelledIsNotSuccess == Cancelled => ~ReportedSuccess

\* C15: a per-item I/O error of the tree copy or of the archive is counted in
\* files_skipped and in nothing else, the loop goes on with the next item and
\* never makes start_backup raise, and without stop() every item of the
\* manifest is gone through.
C15_ItemErrorsAreSkipped ==
  /\ [][((\E s \in BOOLEAN, t \in BOOLEAN, l \in BOOLEAN : CopyItem(TRUE, s, t, l))
         \/ (\E l \in BOOLEAN : ArchiveItem(TRUE, l)))
        => /\ bm_stats'.files_skipped = bm_stats.files_skipped + 1
           /\ bm_stats'.files_copied = bm_stats.files_copied
           /\ li' = li + 1
           /\ lpc' = lpc]_vars
  /\ [][(lpc \in {"copy", "archive"}) => (lpc' \in {"copy", "archive", "save"})]_vars
  /\ []((lpc = "save" /\ ~bm_stop_flag) => Entered = Len(all_files))

\* an error on the first of two items, the second one copied all the same
C15_Witness ==
  /\ lpc = "returned"
  /\ ~bm_compress /\ ~bm_incremental /\ bm_preserve
  /\ Len(all_files) = 2
  /\ bm_stats.files_skipped = 1
  /\ bm_stats.files_copied = 1
  /\ ~AtDestination(1)
  /\ AtDestination(2)

\* C16: a run of the remote executor whose session could not be established
\* ends by raising to the caller, not by returning.
C16_SetupFaultRaises ==
  (routcome = "error" /\ rpc \in {"returned", "raised"}) => rpc = "raised"

\* C17: every invocation of start_backup starts from zeroed counters, also
\* the second one on the same BackupManager.
C17_FreshStatsPerRun ==
  (lpc = "collect" /\ li = 1) =>
    /\ bm_stats.files_copied = 0
    /\ bm_stats.files_skipped = 0
    /\ bm_stats.total_size = 0

\* C18: after an undisturbed tree-copy run, a target path two or more items
\* of the manifest map to holds the last of them, whatever `incremental` is.
C18_LastWriteWins ==
  (lpc = "returned" /\ run_ok /\ ~bm_compress) =>
    \A i \in DOMAIN all_files : \A j \in DOMAIN all_files :
      (i < j /\ TargetPath(bm_preserve, all_files[i]) = TargetPath(bm_preserve, all_files[j]))
        => \E k \in j..Len(all_files) :
             /\ TargetPath(bm_preserve, all_files[k]) = TargetPath(bm_preserve, all_files[j])
             /\ Entry(all_files[j]).src = all_files[k]

\* C19: the stats written to last_backup.json carry the run's end time.
C19_RecordHasEndTime == last_backup.written => last_backup.stats.end_time

\* ------------------------------------------------------------- sidecar
Uploaded == p_fn = "upload" /\ p_res.applied

LoopCompleted ==
  /\ lpc \in {"save", "returned"}
  /\ Len(all_files) > 0
  /\ li = Len(all_files) + 1

\* C22: over a run that is not cancelled the progress callback is invoked
\* exactly total_files times, processedCount taking the values
\* 1..total_files in order: once after every item, copied, skipped or failed.
C22_ProgressAfterEveryItem ==
  LoopCompleted => progress = [j \in 1..bm_stats.total_files |-> j]

\* ------------------------------------------------------------- archive
\* the file that extracting backup.zip leaves at a path: members are
\* extracted in the order they were written (lines 267-275 add one member per
\* item, whatever names the archive already holds), so of several members of
\* one name the last is the one that stays
ExtractArchive(entries, preserve) ==
  [t \in Targets |->
     LET js == {j \in 1..Len(entries) : TargetPath(preserve, entries[j]) = t}
     IN  IF js = {} THEN 0
         ELSE entries[CHOOSE j \in js : \A k \in js : k <= j]]

\* C23: extracting the archive of a compress=True run gives back every file
\* counted in files_copied at the path of the destination path rule, and no
\* two manifest items share an archive entry name.
C23_ArchiveRoundTrip ==
  (bm_compress /\ lpc \in {"save", "returned"}) =>
    /\ \A j \in 1..Len(zip_entries) :
         ExtractArchive(zip_entries, bm_preserve)[TargetPath(bm_preserve, zip_entries[j])]
           = zip_entries[j]
    /\ \A a, b \in 1..Len(all_files) :
         a # b => TargetPath(bm_preserve, all_files[a]) # TargetPath(bm_preserve, all_files[b])

\* -------------------------------------------------------- output layout
\* the executor of the run got past its first lines (the log file, or the
\* archive, was opened)
ExecutorEntered == lpc \in {"copy", "archive", "save", "returned"} /\ Len(all_files) > 0

\* C24: a run that reaches the executor leaves backup_metadata.json and
\* backup_log.txt directly inside its backup_<timestamp> directory, next to
\* the copied tree or to the single archive file.
C24_MetadataAndLogInDirectory ==
  ExecutorEntered =>
    /\ {"backup_metadata.json", "backup_log.txt"} \subseteq out_files[backup_path]
    /\ bm_compress => "backup.zip" \in out_files[backup_path]
    /\ ~bm_compress => "backup.zip" \notin out_files[backup_path]

\* ------------------------------------------------------------- text log
\* the item lines of backup_log.txt of one kind
LinesOf(kind) == {j \in 1..Len(backup_log.lines) : backup_log.lines[j].kind = kind}

\* C26: the log of a tree-copy run that is not cancelled has one SKIPPED or
\* COPIED line per item, in manifest order, between header and footer, and
\* the footer's copied and skipped totals are the numbers of COPIED and
\* SKIPPED lines.
C26_OneLogLinePerItem ==
  (~bm_compress /\ LoopCompleted) =>
    /\ backup_log.header /\ backup_log.footer.written
    /\ Len(backup_log.lines) = bm_stats.total_files
    /\ \A j \in 1..Len(backup_log.lines) : backup_log.lines[j].pos = j
    /\ backup_log.footer.copied = Cardinality(LinesOf("COPIED"))
    /\ backup_log.footer.skipped = Cardinality(LinesOf("SKIPPED"))

\* ------------------------------------------------------------- session
\* some worker thread has been started
WorkersStarted == spawned > 0

\* C25: a remote run opens one session (one connect, one open_sftp), before
\* any item is enqueued and before any worker starts; an opened session is
\* never opened again; no step of a worker touches the session; a run with
\* an empty manifest opens none.
C25_OneSessionBeforeWork ==
  /\ []((queue # <<>> \/ unfinished > 0 \/ WorkersStarted) => sftp # "none")
  /\ [](Len(items) = 0 => (sftp = "none" /\ client = "none"))
  /\ [][/\ sftp' # sftp =>
             \/ (sftp = "none" /\ sftp' = "open" /\ client = "none"
                 /\ queue = <<>> /\ unfinished = 0 /\ ~WorkersStarted)
             \/ (sftp = "open" /\ sftp' = "closed")
        /\ client' # client =>
             \/ (client = "none" /\ client' \in {"created", "connected"})
             \/ client' = "closed"
        /\ (\E w \in 1..MaxWorkers : wpc'[w] # wpc[w] /\ wpc[w] # "unstarted") =>
             UNCHANGED <<sftp, client>>]_vars

C25_Witness ==
  /\ sftp = "open"
  /\ spawned = 2
  /\ \E w \in 1..MaxWorkers : wpc[w] = "upload"

\* ------------------------------------------------------------- counters
\* C27: at every state of a remote run the three counters are non-negative
\* and add up to at most total_files, no counter ever decreases, and every
\* increment is made by the worker that holds the lock and adds exactly one
\* to the counter of its item.
C27_CountersUnderLock ==
  /\ [](/\ CounterSum <= stats.total_files
        /\ \A c \in Counters : stats[c] >= 0)
  /\ [][\A c \in Counters : stats'[c] >= stats[c]]_vars
  /\ [][\A w \in Workers :
          (wpc[w] = "write" /\ wpc'[w] # "write") =>
            (lock = w /\ stats' = [stats EXCEPT ![wctr[w]] = @ + 1])]_vars
  /\ [][(\E c \in Counters : stats'[c] # stats[c]) =>
          \E w \in Workers : lock = w /\ wpc[w] = "write"]_vars

C27_Witness ==
  /\ CounterSum = 1
  /\ stats.total_files = MaxItems
  /\ \E w \in Workers : lock = w /\ wpc[w] = "write"
  /\ rpc \in {"spawn", "wjoin"}

\* ---------------------------------------------------------- work queue
\* the queue holds the last n items of the manifest, in manifest order
QueueIsRemainder ==
  queue = SubSeq(items, Len(items) - Len(queue) + 1, Len(items))

Dequeued(i) == deq[i] > 0

\* C28: the queue is filled completely, in collection order, before the
\* first worker starts; items leave it in that order (an item is dequeued
\* only after every item before it in the manifest); a worker that finds the
\* queue empty exits when every item of the run has been dequeued.
C28_FifoQueue ==
  /\ [](WorkersStarted =>
          /\ QueueIsRemainder
          /\ \A k \in 1..(Len(items) - Len(queue)) : Dequeued(items[k]))
  /\ [](\A a, b \in 1..Len(items) :
          (a < b /\ Dequeued(items[b])) => Dequeued(items[a]))
  /\ [][queue' # queue =>
          \/ (queue = <<>> /\ queue' = items /\ ~WorkersStarted)
          \/ (queue # <<>> /\ queue' = Tail(queue) /\ deq'[queue[1]] > 0)]_vars
  /\ [][\A w \in Workers :
          (wpc[w] = "get" /\ wpc'[w] = "exited") =>
            (queue = <<>> /\ \A k \in 1..Len(items) : Dequeued(items[k]))]_vars

C28_Witness ==
  /\ ~stop_flag
  /\ Len(items) = MaxItems
  /\ \E w1 \in Workers, w2 \in Workers :
       /\ wpc[w1] = "exited"
       /\ witem[w2] = items[MaxItems]
       /\ wpc[w2] = "upload"

\* --------------------------------------------------- stop in collection
\* _collect_files of the remote run has returned
RemoteCollected ==
  rpc \notin {"idle", "collect", "collect_stopped", "collect_files"} /\ routcome # "noimport"

\* C30: when the stop flag is set during collection the returned list is a
\* prefix of the full manifest, total_files is its length, and no source
\* directory or loose file is enumerated after the flag has been observed.
C30_StopEndsEnumeration ==
  /\ [](RemoteCollected =>
          /\ items = [k \in 1..Len(items) |-> k]
          /\ Len(items) <= nsources
          /\ stats.total_files = Len(items))
  /\ [][rpc = "collect_stopped" => ci' = ci]_vars

\* ---------------------------------------------------- directory creation
\* _mkdirs of the worker has returned
MkdirsReturned(w) == mpc[w] = "put" \/ (mpc[w] = "done" /\ mres[w] # "mkdirs_raised")

\* C29: _mkdirs never raises, whichever fault mkdir answers with; when two
\* workers make the same missing directory at once the loser's "already
\* exists" is passed over; as long as no mkdir is refused for another reason,
\* every directory on a worker's path exists once its _mkdirs has returned
\* and no item is counted as failed for want of a directory.
C29_MkdirsIdempotent ==
  \A w \in Workers :
    /\ mres[w] # "mkdirs_raised"
    /\ (MkdirsReturned(w) /\ ~mdenied) => (1..mdepth[w] \subseteq rdirs)
    /\ ~mdenied => mres[w] # "no_directory"
    /\ mres[w] = "files_copied" => (1..mdepth[w] \subseteq rdirs)

C29_Witness ==
  /\ ~mdenied
  /\ \E w1 \in Workers, w2 \in Workers :
       /\ w1 # w2
       /\ mraced[w1] /\ ~mraced[w2]
       /\ mdepth[w1] = MaxDepth /\ mdepth[w2] = MaxDepth
       /\ mres[w1] = "files_copied" /\ mres[w2] = "files_copied"

\* ------------------------------------------------------------ path rules
\* C31: with preserve_structure on, two items found under different source
\* roots never get the same target path.
C31_RootsKeptApart ==
  (p_fn = "local_target" /\ p_res.applied /\ p_args.dir1 # p_args.dir2) =>
    p_res.t1 # p_res.t2

\* C32: with preserve_structure on, two different items of a remote run never
\* get the same remote path, also when their source directories have the
\* same basename.
C32_RemotePathsDistinct ==
  (p_fn = "remote_target" /\ p_res.applied /\ p_args.dir1 # p_args.dir2) =>
    p_res.t1 # p_res.t2

\* ------------------------------------------------------- session in use
\* the worker is inside _should_skip_incremental or _upload_file
UsingSession(w) == wpc[w] \in {"check", "upload"}

\* C33: when start_backup closes the session no worker is using it, on the
\* normal path and on the path of an exception raised after a worker was
\* started.
C33_NoCloseWhileInUse ==
  [][(sftp = "open" /\ sftp' = "closed") =>
       \A w \in Workers : ~UsingSession(w)]_vars

\* ------------------------------------------------------------ task_done
\* C38: task_done is called once for every dequeued item, after its
\* processing, on the normal path and when the processing raised, and never
\* for an item that was not dequeued; the count of unfinished tasks never
\* goes below zero, and queue.join returns only when no dequeued item is
\* still being processed.
C38_TaskDoneOncePerItem ==
  /\ [](\A i \in ItemIds :
          /\ done[i] <= deq[i]
          /\ done[i] <= 1
          /\ (Dequeued(i) /\ Holders(i) = {}) => done[i] = 1
          /\ Holders(i) # {} => done[i] = 0)
  /\ [](unfinished >= 0)
  /\ [](rpc \in {"spawn", "wjoin", "cleanup"} /\ routcome # "error" =>
          unfinished = Len(queue) + Cardinality({i \in ItemIds : Holders(i) # {}}))
  /\ [][(rpc = "spawn" /\ rpc' = "wjoin") =>
          \A w \in Workers : Idle(w)]_vars
  /\ [][\A i \in ItemIds : done'[i] # done[i] =>
          (\E w \in Workers : witem[w] = i /\ wpc[w] \in {"done", "except"}
                              /\ witem'[w] = 0)]_vars

C38_Witness ==
  /\ unfinished = 1
  /\ \E w \in Workers : wpc[w] = "except" /\ done[witem[w]] = 0
  /\ \E i \in ItemIds : done[i] = 1

\* ------------------------------------------------------------ empty run
\* start_backup has returned at line 89, its manifest being empty
EmptyRunReturned == lpc = "returned" /\ Len(all_files) = 0

\* a step of start_backup up to its return at line 89
PrologueStep == lpc' = "collect" \/ (lpc = "collect" /\ lpc' = "returned")

C36_StopFlagStays ==
  /\ [][bm_stop_flag => (bm_stop_flag' \/ mgr_runs' = 0)]_vars
  /\ [][(bm_stop_flag /\ mgr_runs' # 0) =>
          /\ Len(all_files') <= Len(all_files)
          /\ dest' = dest
          /\ zip_entries' \in {zip_entries, <<>>}
          /\ bm_stats'.files_copied = bm_stats.files_copied
          /\ bm_stats'.files_skipped = bm_stats.files_skipped
          /\ progress' \in {progress, <<>>}]_vars
  /\ [][(bm_stop_flag /\ RunEnded /\ lpc' = "collect") => all_files' = <<>>]_vars
  /\ [][(bm_stop_flag /\ lpc = "collect" /\ lpc' # "collect" /\ all_files = <<>>) =>
          lpc' = "returned"]_vars

C36_Witness ==
  /\ bm_stop_flag
  /\ mgr_runs = MaxRuns
  /\ lpc = "returned"
  /\ all_files = <<>>
  /\ \A f \in LFiles : src_present[f]
  /\ ~last_backup.written

\* ------------------------------------------------------- one backup at a time
\* C34: at most one backup thread is alive at any time, also when the user
\* presses stop and then start while the stopped worker is still finishing.
C34_OneBackupAtATime ==
  Cardinality({k \in 1..Len(backup_threads) : backup_threads[k] # "finished"}) <= 1

\* ------------------------------------------------------ scheduler alive
\* C35: until stop_schedule is called the scheduling thread goes on polling,
\* whatever number of backups it has triggered and however they ended, and it
\* triggers at most one backup for each occurrence of the scheduled minute.
C35_SchedulerKeepsPolling ==
  /\ (sch_pc # "none" /\ ~sch_stop) => sch_pc \notin {"dead", "exited"}
  /\ \A o \in 1..MaxOccurrences : sch_fired[o] <= 1

====
